---------------------------- MODULE Spec2Model ----------------------------
(***************************************************************************)
(* Model of src/QuantumSuperpositionDelay.cpp: the QuantumSuperpositionDelay *)
(* module (a VCV Rack plugin module): six circular delay buffers sharing    *)
(* one write cursor, a probability-weight vector updated at control rate,  *)
(* the collapse event, the per-sample feedback/entanglement network and    *)
(* the JSON import of the weights.                                         *)
(*                                                                         *)
(* Numbers.  The program computes with float; the model computes with      *)
(* fixed-point integers, every operation rounding to the nearest:          *)
(*   - unit-less quantities (weights, velocities, entanglement, controls,  *)
(*     the peak centre) are scaled by ONE;                                  *)
(*   - voltages are scaled by ONE per volt;                                *)
(*   - delay lengths are scaled by DelayScale per sample;                  *)
(*   - the collapse light is scaled by LightScale.                         *)
(* NaN (the float result of 0/0) is a distinguished value that the         *)
(* arithmetic below propagates as IEEE arithmetic does.                    *)
(*                                                                         *)
(* One process() call is three steps, taken in order and never interleaved *)
(* with a call on another instance: ProcessEnter (lines 238-245),          *)
(* CollapseCheck (lines 247-250) and Audio (lines 252-311).  pc[e] is the  *)
(* position of instance e inside process().                                *)
(***************************************************************************)
EXTENDS Integers, Sequences, FiniteSets, TLC

\* ------------------------------------------------------------------ bounds
\* Number of module instances the host has created.
NumEngines == 2
\* The random source returns k / RandDen for k in 0 .. RandDen-1.
RandDen == 12
\* Calls during which the audio input may change; it is held afterwards.
BurstLen == 2
\* process() calls per instance in the audio specification.
MaxCallsAudio == 70
\* First call in which the environment may drive the trigger port.
TrigFrom == 60
\* process() calls per instance in the collapse specification.
MaxCallsCollapse == 66
\* Collapse triggers the environment sends at most.
MaxCollapses == 2
\* process() calls per instance in the import specification.
MaxCallsImport == 66
\* dataFromJson calls at most.
MaxImports == 1
\* dataFromJson is called after at most this many process() calls.
ImportUntil == 2
\* process() calls over both instances in the two-instance specification.
MaxCallsTwo == 70
\* Control-rate updates in the relaxation specification.
MaxUpdatesRelax == 56

\* ------------------------------------------------------- program constants
NUM_BUFFERS == 6
MAX_DELAY_SAMPLES == 96000
BUFFER_SIZE == MAX_DELAY_SAMPLES \div NUM_BUFFERS
\* "if (++controlDivider >= 64)"
ControlPeriod == 64
\* "int entangleIndex = (writeIndex + 10) % BUFFER_SIZE"
EntangleOffset == 10

\* ------------------------------------------------------ number representation
ONE == 12 * (10 ^ 3)
DelayScale == 10 ^ 2
LightScale == 10 ^ 8
NaN == -(2 ^ 30)

Buffers == 0 .. (NUM_BUFFERS - 1)
Engines == 1 .. NumEngines

IsNaN(x) == x = NaN

Abs(x) == IF x < 0 THEN -x ELSE x

\* a / b for b > 0, rounded to the nearest integer (float arithmetic rounds to
\* nearest).
Quot(a, b) == IF a >= 0 THEN (a + b \div 2) \div b ELSE -((-a + b \div 2) \div b)

\* a * b / c for c > 0, rounded to the nearest integer, without forming a * b.
MulDiv(a, b, c) ==
    LET sgn == IF (a < 0) = (b < 0) THEN 1 ELSE -1
        aa == Abs(a)
        bb == Abs(b)
    IN sgn * ((aa \div c) * bb + ((aa % c) * bb + c \div 2) \div c)

\* float arithmetic on values that may be NaN
FAdd(a, b) == IF IsNaN(a) \/ IsNaN(b) THEN NaN ELSE a + b

FSub(a, b) == IF IsNaN(a) \/ IsNaN(b) THEN NaN ELSE a - b

FScale(a, num, den) == IF IsNaN(a) THEN NaN ELSE MulDiv(a, num, den)

\* rack::math::clamp(x, a, b) = fmax(fmin(x, b), a); fmin and fmax drop a NaN
\* operand, so a NaN x yields b.
Clamp(x, a, b) ==
    LET lo == IF IsNaN(x) THEN b ELSE IF x < b THEN x ELSE b
    IN IF lo > a THEN lo ELSE a

\* std::exp(-x) for x >= 0, both in units of 1/ONE: exp(-q) from a table for the
\* integer part q and the Taylor series of exp(-f) for the fractional part f.
ExpInt == << 12000, 4414, 1624, 597, 219, 80, 29, 10, 4, 1 >>

RECURSIVE ExpSeries(_, _, _, _)
ExpSeries(f, n, term, acc) ==
    IF n > 9 \/ term = 0 THEN acc
    ELSE LET t == -MulDiv(term, f, n * ONE)
         IN ExpSeries(f, n + 1, t, acc + t)

ExpNeg(x) ==
    LET q == x \div ONE
        f == x % ONE
        ip == IF q + 1 <= Len(ExpInt) THEN ExpInt[q + 1] ELSE 0
    IN MulDiv(ip, ExpSeries(f, 1, ONE, ONE), ONE)

\* Sum of f[i] over i in 0 .. n-1; NaN if an entry is NaN.
RECURSIVE SumTo(_, _)
SumTo(f, n) == IF n = 0 THEN 0 ELSE FAdd(SumTo(f, n - 1), f[n - 1])

\* ------------------------------------------------------------------- state
VARIABLES
    delayBuffers,     \* [e][b]: the samples of buffer b that are not 0.f, by slot
    writeIndex,       \* [e]
    readIndices,      \* [e][b]
    probWeights,      \* [e][b]
    targetWeights,    \* [e][b]
    weightVelocity,   \* [e][b]
    delayTimes,       \* [e][b], in samples * DelayScale
    feedbackLevels,   \* [e][b]
    entanglement,     \* [e][b]
    controls,         \* [e]: baseDelayTime, spreadAmount, probabilityShape,
                      \*      globalFeedback, dryWetMix, chaosAmount
    collapseTrigger,  \* [e]: the Schmitt trigger's state (TRUE = high)
    collapseLight,    \* [e]
    rng,              \* [e]: the state of the instance's random generator
    controlDivider,   \* the function-local static of process()
    peakCenter,       \* the function-local static of updateProbabilityWeights()
    params,           \* [e]: the six knob values
    inputs,           \* [e]: the voltages of the five input ports
    output,           \* [e]: the voltage of AUDIO_OUTPUT
    sampleRate,       \* args.sampleRate
    pc,               \* [e]: "enter" | "collapse" | "audio"
    rootJ,            \* [e]: the JSON object last handed to dataFromJson
    imports,          \* [e]: number of dataFromJson calls
    collapses,        \* [e]: number of collapse events
    updates,          \* [e]: number of control-rate updates run by e
    entPending,       \* [e][b]: slots of b holding cross-coupling energy not yet read
    entLost           \* [e]: cross-coupling energy was overwritten before b read it

vars == << delayBuffers, writeIndex, readIndices, probWeights, targetWeights,
           weightVelocity, delayTimes, feedbackLevels, entanglement, controls,
           collapseTrigger, collapseLight, rng, controlDivider, peakCenter,
           params, inputs, output, sampleRate, pc, rootJ, imports, collapses,
           updates, entPending, entLost >>

\* ------------------------------------------------------------ random source
\* std::mt19937 is a deterministic generator seeded once, at construction, from
\* std::random_device.  The model's generator is the full-period sequence
\* rng -> (rng + RandStep) % RandDen with an arbitrary seed; the draw is
\* rng / RandDen, a value of [0, 1) as uniform_real_distribution(0.f, 1.f) has.
RandStep == 5

\* Numerator of the j-th value fastRandom() returns from generator state r0.
Draw(r0, j) == (r0 + j * RandStep) % RandDen

\* Generator state after n calls of fastRandom().
Advance(r0, n) == (r0 + n * RandStep) % RandDen

\* (fastRandom() - 0.5f) * amp for the draw with numerator k.
Noise(k, amp) == MulDiv(amp, 2 * k - RandDen, 2 * RandDen)

\* ------------------------------------------------------------- construction
\* configParam(..) default values: time, spread, probability, feedback, mix, chaos.
DefaultParams ==
    [ time |-> ONE \div 4, spread |-> ONE \div 2, prob |-> ONE \div 2,
      feedback |-> (3 * ONE) \div 10, mix |-> ONE \div 2, chaos |-> ONE \div 10 ]

\* The member initialisers of the control variables.
DefaultControls ==
    [ baseDelayTime |-> ONE \div 2, spreadAmount |-> ONE \div 2,
      probabilityShape |-> ONE \div 2, globalFeedback |-> (3 * ONE) \div 10,
      dryWetMix |-> ONE \div 2, chaosAmount |-> ONE \div 10 ]

\* Unconnected ports read 0 V.
DefaultInputs == [ audio |-> 0, cvProb |-> 0, cvSpread |-> 0, cvFeedback |-> 0, trig |-> 0 ]

\* initializeQuantumState()
InitialQuantumState ==
    [ probWeights    |-> [i \in Buffers |-> ONE \div NUM_BUFFERS],
      targetWeights  |-> [i \in Buffers |-> ONE \div NUM_BUFFERS],
      weightVelocity |-> [i \in Buffers |-> 0],
      delayTimes     |-> [i \in Buffers |-> (1000 + i * 1500) * DelayScale],
      feedbackLevels |-> [i \in Buffers |-> (3 * ONE) \div 10],
      entanglement   |-> [i \in Buffers |-> 0] ]

\* The empty sparse buffer: every slot holds 0.f.
ZeroBuffer == [s \in {} |-> 0]

\* The state after the constructors, for seeds in Seeds of the generators of
\* the instances in Act (the instances the host goes on to call) and sample
\* rates of the host in Rates.
InitWith(Act, Seeds, Rates) ==
    /\ delayBuffers = [e \in Engines |-> [b \in Buffers |-> ZeroBuffer]]
    /\ writeIndex = [e \in Engines |-> 0]
    /\ readIndices = [e \in Engines |-> [b \in Buffers |-> 0]]
    /\ probWeights = [e \in Engines |-> InitialQuantumState.probWeights]
    /\ targetWeights = [e \in Engines |-> InitialQuantumState.targetWeights]
    /\ weightVelocity = [e \in Engines |-> InitialQuantumState.weightVelocity]
    /\ delayTimes = [e \in Engines |-> InitialQuantumState.delayTimes]
    /\ feedbackLevels = [e \in Engines |-> InitialQuantumState.feedbackLevels]
    /\ entanglement = [e \in Engines |-> InitialQuantumState.entanglement]
    /\ controls = [e \in Engines |-> DefaultControls]
    /\ collapseTrigger = [e \in Engines |-> TRUE]
    /\ collapseLight = [e \in Engines |-> 0]
    /\ rng \in {f \in [Engines -> 0 .. (RandDen - 1)] :
                 \A e \in Engines : IF e \in Act THEN f[e] \in Seeds ELSE f[e] = 0}
    /\ controlDivider = 0
    /\ peakCenter = (NUM_BUFFERS * ONE) \div 2
    /\ params = [e \in Engines |-> DefaultParams]
    /\ inputs = [e \in Engines |-> DefaultInputs]
    /\ output = [e \in Engines |-> 0]
    /\ sampleRate \in Rates
    /\ pc = [e \in Engines |-> "enter"]
    /\ rootJ = [e \in Engines |-> [kind |-> "none", elems |-> << >>]]
    /\ imports = [e \in Engines |-> 0]
    /\ collapses = [e \in Engines |-> 0]
    /\ updates = [e \in Engines |-> 0]
    /\ entPending = [e \in Engines |-> [b \in Buffers |-> {}]]
    /\ entLost = [e \in Engines |-> FALSE]

\* ----------------------------------------------------------- updateControls
\* A CV voltage divided by 10.f, as a unit-less value.
CvNorm(v) == Quot(v, 10)

UpdateControls(p, in) ==
    [ baseDelayTime    |-> Clamp(p.time, 0, ONE),
      spreadAmount     |-> Clamp(p.spread + CvNorm(in.cvSpread), 0, ONE),
      probabilityShape |-> Clamp(p.prob + CvNorm(in.cvProb), 0, ONE),
      globalFeedback   |-> Clamp(p.feedback + CvNorm(in.cvFeedback), 0, (95 * ONE) \div 100),
      dryWetMix        |-> p.mix,
      chaosAmount      |-> p.chaos ]

\* ------------------------------------------------- updateProbabilityWeights
\* The "more uniform" branch: blend of the previous target with 1/N.
UniformBranch(shape, target) ==
    LET uniformity == (ONE \div 2 - shape) * 2
    IN [i \in Buffers |->
          FAdd(FScale(target[i], ONE - uniformity, ONE), uniformity \div NUM_BUFFERS)]

\* The random walk of the peak centre (one draw, numerator k).
WalkPeak(peak, k, chaos) ==
    Clamp(peak + Noise(k, chaos \div 2), 0, (NUM_BUFFERS - 1) * ONE)

\* The "more peaked" branch around peak centre pk, normalised by its total.
PeakedBranch(shape, pk) ==
    LET peakedness == (shape - ONE \div 2) * 2
        raw == [i \in Buffers |-> ExpNeg(MulDiv(Abs(i * ONE - pk), peakedness * 2, ONE))]
        totalWeight == SumTo(raw, NUM_BUFFERS)
    IN [i \in Buffers |-> MulDiv(raw[i], ONE, totalWeight)]

\* "Add chaos": the draws with numerators Draw(r0, first + i), then the clamp.
AddChaos(weights, chaos, r0, first) ==
    [i \in Buffers |->
        Clamp(FAdd(weights[i], Noise(Draw(r0, first + i), chaos \div 10)), 0, ONE)]

\* "Normalize after chaos": weights[i] / sum; 0.f / 0.f is NaN.
Normalize(weights) ==
    LET sum == SumTo(weights, NUM_BUFFERS)
    IN [i \in Buffers |-> IF sum = 0 THEN NaN ELSE MulDiv(weights[i], ONE, sum)]

\* "Smooth interpolation": the new velocity and the new current weight.
RelaxVelocity(v, target, prob) ==
    FAdd(FScale(v, 9, 10), FScale(FSub(target, prob), 1, 10))

RelaxWeight(prob, v) == FAdd(prob, FScale(v, 5, 100))

\* updateProbabilityWeights(): the new target, current, velocity and peak centre,
\* the sum the normalisation divided by, and the number of draws taken.
UpdateProbabilityWeights(shape, chaos, target, prob, vel, peak, r0) ==
    LET peaked == shape >= ONE \div 2
        pk == IF peaked THEN WalkPeak(peak, Draw(r0, 0), chaos) ELSE peak
        first == IF peaked THEN 1 ELSE 0
        weights == IF peaked THEN PeakedBranch(shape, pk) ELSE UniformBranch(shape, target)
        noisy == AddChaos(weights, chaos, r0, first)
        tgt == Normalize(noisy)
        v == [i \in Buffers |-> RelaxVelocity(vel[i], tgt[i], prob[i])]
    IN [ targetWeights  |-> tgt,
         weightVelocity |-> v,
         probWeights    |-> [i \in Buffers |-> RelaxWeight(prob[i], v[i])],
         peakCenter     |-> pk,
         sum            |-> SumTo(noisy, NUM_BUFFERS),
         draws          |-> first + NUM_BUFFERS ]

\* ---------------------------------------------------------- updateDelayTimes
\* delayTimes[i] for the draw with numerator k, in samples * DelayScale.
DelayTime(i, c, rate, k) ==
    LET minDelaySamples == 10 * DelayScale
        top == (BUFFER_SIZE - 1) * DelayScale
        maxDelaySamples ==
            Clamp(MulDiv(2 * rate * DelayScale, c.baseDelayTime, ONE), minDelaySamples, top)
        delayRange == MulDiv(maxDelaySamples - minDelaySamples, c.spreadAmount, ONE)
        base == minDelaySamples + Quot(i * delayRange, NUM_BUFFERS - 1)
        jitter == Noise(k, MulDiv(Quot(rate * DelayScale * 5, 1000), c.chaosAmount, ONE))
    IN Clamp(base + jitter, 1 * DelayScale, top)

\* "(int)delayTimes[i]"
DelaySamples(dt) == dt \div DelayScale

\* "readIndices[i] = (writeIndex - delaySamples + BUFFER_SIZE) % BUFFER_SIZE"
ReadIndex(w, dt) == (w - DelaySamples(dt) + BUFFER_SIZE) % BUFFER_SIZE

\* ----------------------------------------------------- handleQuantumCollapse
\* Mutant of DominantBuffer: the product is rounded up instead of truncated.
DominantBufferRoundUp(k) == (k * NUM_BUFFERS + RandDen - 1) \div RandDen

\* "int dominantBuffer = fastRandom() * NUM_BUFFERS" for the draw k / RandDen.
DominantBuffer(k) == (k * NUM_BUFFERS) \div RandDen

CollapseFactor == (7 * ONE) \div 10

\* The target vector handleQuantumCollapse() writes for the draw k / RandDen.
HandleQuantumCollapse(k) ==
    [i \in Buffers |->
        IF i = DominantBuffer(k) THEN CollapseFactor
        ELSE (ONE - CollapseFactor) \div (NUM_BUFFERS - 1)]

\* ------------------------------------------------------------ delay buffers
\* delayBuffers[b][i] of a buffer kept as its non-zero slots.
Get(buf, i) == IF i \in DOMAIN buf THEN buf[i] ELSE 0

\* The buffer after "delayBuffers[b][i] = v".
Put(buf, i, v) ==
    IF v = 0 THEN [s \in (DOMAIN buf) \ {i} |-> buf[s]]
    ELSE [s \in (DOMAIN buf) \cup {i} |-> IF s = i THEN v ELSE buf[s]]

\* "frac = delayTimes[b] - (int)delayTimes[b]", in units of 1/DelayScale.
Frac(dt) == dt % DelayScale

\* Within one process() call only two slots of a buffer change: writeIndex (w)
\* and entangleIndex (ei).  The loop state st carries their current values for
\* every buffer (st.vw, st.ve); old is delayBuffers as the call found it.
\* delayBuffers[b][idx] as the loop currently sees it:
Slot(st, old, b, idx, w, ei) ==
    IF idx = w THEN st.vw[b] ELSE IF idx = ei THEN st.ve[b] ELSE Get(old[b], idx)

\* The linearly interpolated sample from the slot values x (at readIdx) and y (at
\* readIdxNext).
DelayedSample(x, y, dt) ==
    Quot(x * (DelayScale - Frac(dt)) + y * Frac(dt), DelayScale)

\* The slots of a buffer that contribute to DelayedSample.
SlotsRead(readIdx, dt) ==
    {readIdx} \cup (IF Frac(dt) > 0 THEN {(readIdx + 1) % BUFFER_SIZE} ELSE {})

\* "delayedSample * probWeights[b]"
WeightedSample(delayed, w) == IF IsNaN(w) THEN NaN ELSE MulDiv(delayed, w, ONE)

\* "delayedSample * globalFeedback * feedbackLevels[b]"
FeedbackSample(delayed, gf, fl) == MulDiv(MulDiv(delayed, gf, ONE), fl, ONE)

\* "feedbackSample * entanglementAmount" with entanglementAmount = entanglement[b] * 0.1f
EntangleAdd(fb, ent) == MulDiv(fb, Quot(ent, 10), ONE)

\* "entanglement[b] * 0.99f + energy * 0.01f" with energy = |delayedSample| / 10.f
NextEntanglement(ent, delayed) == Quot(ent * 99 + Quot(Abs(delayed), 10), 100)

\* One iteration, for buffer b, of the loop of lines 267-301 on the loop state
\* st = [vw, ve, acc, ent, pend]: read, accumulate, cross-couple, feed back.
BufferStep(st, old, b, w, rd, dts, prob, gf, fls) ==
    LET entangleIndex == (w + EntangleOffset) % BUFFER_SIZE
        delayed == DelayedSample(Slot(st, old, b, rd[b], w, entangleIndex),
                                 Slot(st, old, b, (rd[b] + 1) % BUFFER_SIZE, w, entangleIndex),
                                 dts[b])
        fb == FeedbackSample(delayed, gf, fls[b])
        add == EntangleAdd(fb, st.ent[b])
    IN [ ve   |-> [o \in Buffers |-> IF o # b THEN st.ve[o] + add ELSE st.ve[o]],
         vw   |-> [st.vw EXCEPT ![b] = @ + fb],
         acc  |-> FAdd(st.acc, WeightedSample(delayed, prob[b])),
         ent  |-> [st.ent EXCEPT ![b] = NextEntanglement(@, delayed)],
         pend |-> [o \in Buffers |->
                     IF o = b THEN st.pend[o] \ SlotsRead(rd[b], dts[b])
                     ELSE IF add # 0 THEN st.pend[o] \cup {entangleIndex}
                     ELSE st.pend[o]] ]

\* The loop over b = 0 .. n-1.
RECURSIVE BufferLoop(_, _, _, _, _, _, _, _, _)
BufferLoop(st, old, n, w, rd, dts, prob, gf, fls) ==
    IF n = 0 THEN st
    ELSE BufferStep(BufferLoop(st, old, n - 1, w, rd, dts, prob, gf, fls),
                    old, n - 1, w, rd, dts, prob, gf, fls)

\* Mutant of WetSample: the clamp is missing.
WetSampleUnclamped(acc) == IF IsNaN(acc) THEN 10 * ONE ELSE acc

\* "float wetSample = clamp(outputAccumulator, -10.f, 10.f)"
WetSample(acc) == Clamp(acc, -10 * ONE, 10 * ONE)

\* "inputSample * (1.f - dryWetMix) + wetSample * dryWetMix"
MixedOutput(in, wet, mix) == Quot(in * (ONE - mix) + wet * mix, ONE)

\* "collapseLight -= collapseLight / args.sampleRate * 5.f"
DecayLight(light, rate) == light - Quot(light * 5, rate)

\* ------------------------------------------------------------------ process
\* No process() call is under way on any instance.
Idle == \A o \in Engines : pc[o] = "enter"

\* dsp::SchmittTrigger::process(in, 0.1f, 2.f): the new state.
SchmittNext(high, v) ==
    IF high THEN ~(v <= ONE \div 10) ELSE v >= 2 * ONE

\* dsp::SchmittTrigger::process(in, 0.1f, 2.f): the value returned.
SchmittFires(high, v) == ~high /\ v >= 2 * ONE

\* process() calls made so far on the instances 1 .. n (no cursor has wrapped).
RECURSIVE CallsUpTo(_)
CallsUpTo(n) == IF n = 0 THEN 0 ELSE CallsUpTo(n - 1) + writeIndex[n]

TotalCalls == CallsUpTo(NumEngines)

\* The control-rate gate fires in the call that now enters process().
GateFires == controlDivider + 1 >= ControlPeriod

\* The host sets the ports and the knobs of instance e and calls process(), which
\* runs lines 238-245.  Env.audio, Env.trig: the voltages the audio and trigger
\* ports may carry; Env.burst: the audio input may change in the first Env.burst
\* calls and is held afterwards; Env.ctl: the knob and CV settings, which the
\* program reads only in a call whose gate fires; Env.calls, Env.collapses: the
\* numbers of calls on one instance and of trigger pulses the environment makes
\* at most; Env.total: the number of calls on all instances together;
\* Env.trigFrom: the call from which the trigger port may be driven.
ProcessEnter(e, Env) ==
    /\ Idle
    /\ writeIndex[e] < Env.calls
    /\ TotalCalls < Env.total
    /\ \E a \in (IF writeIndex[e] < Env.burst THEN Env.audio ELSE {inputs[e].audio}),
          t \in (IF collapses[e] < Env.collapses /\ writeIndex[e] >= Env.trigFrom
                 THEN Env.trig ELSE {0}),
          c \in (IF GateFires THEN Env.ctl ELSE {[p |-> params[e], cv |-> inputs[e]]}) :
          LET in == [ audio |-> a, trig |-> t, cvProb |-> c.cv.cvProb,
                      cvSpread |-> c.cv.cvSpread, cvFeedback |-> c.cv.cvFeedback ]
              ctl == UpdateControls(c.p, in)
              upw == UpdateProbabilityWeights(ctl.probabilityShape, ctl.chaosAmount,
                         targetWeights[e], probWeights[e], weightVelocity[e],
                         peakCenter, rng[e])
              dts == [i \in Buffers |->
                         DelayTime(i, ctl, sampleRate, Draw(rng[e], upw.draws + i))]
          IN /\ inputs' = [inputs EXCEPT ![e] = in]
             /\ params' = [params EXCEPT ![e] = c.p]
             /\ IF GateFires
                THEN /\ controlDivider' = 0
                     /\ controls' = [controls EXCEPT ![e] = ctl]
                     /\ targetWeights' = [targetWeights EXCEPT ![e] = upw.targetWeights]
                     /\ weightVelocity' = [weightVelocity EXCEPT ![e] = upw.weightVelocity]
                     /\ probWeights' = [probWeights EXCEPT ![e] = upw.probWeights]
                     /\ peakCenter' = upw.peakCenter
                     /\ delayTimes' = [delayTimes EXCEPT ![e] = dts]
                     /\ readIndices' = [readIndices EXCEPT ![e] =
                                          [i \in Buffers |-> ReadIndex(writeIndex[e], dts[i])]]
                     /\ rng' = [rng EXCEPT ![e] = Advance(@, upw.draws + NUM_BUFFERS)]
                     /\ updates' = [updates EXCEPT ![e] = @ + 1]
                ELSE /\ controlDivider' = controlDivider + 1
                     /\ UNCHANGED << controls, targetWeights, weightVelocity, probWeights,
                                     peakCenter, delayTimes, readIndices, rng, updates >>
    /\ pc' = [pc EXCEPT ![e] = "collapse"]
    /\ UNCHANGED << delayBuffers, writeIndex, feedbackLevels, entanglement,
                    collapseTrigger, collapseLight, output, sampleRate, rootJ,
                    imports, collapses, entPending, entLost >>

\* Lines 247-250: the trigger detector and, on a rising edge, handleQuantumCollapse().
CollapseCheck(e) ==
    /\ pc[e] = "collapse"
    /\ collapseTrigger' = [collapseTrigger EXCEPT ![e] = SchmittNext(@, inputs[e].trig)]
    /\ IF SchmittFires(collapseTrigger[e], inputs[e].trig)
       THEN /\ targetWeights' = [targetWeights EXCEPT ![e] = HandleQuantumCollapse(Draw(rng[e], 0))]
            /\ collapseLight' = [collapseLight EXCEPT ![e] = LightScale]
            /\ rng' = [rng EXCEPT ![e] = Advance(@, 1)]
            /\ collapses' = [collapses EXCEPT ![e] = @ + 1]
       ELSE UNCHANGED << targetWeights, collapseLight, rng, collapses >>
    /\ pc' = [pc EXCEPT ![e] = "audio"]
    /\ UNCHANGED << delayBuffers, writeIndex, readIndices, probWeights, weightVelocity,
                    delayTimes, feedbackLevels, entanglement, controls, controlDivider,
                    peakCenter, params, inputs, output, sampleRate, rootJ, imports,
                    updates, entPending, entLost >>

\* Lines 252-311: light decay, input write, the buffer loop, the mix, the advance
\* of the write cursor.
Audio(e) ==
    /\ pc[e] = "audio"
    /\ LET w == writeIndex[e]
           ei == (w + EntangleOffset) % BUFFER_SIZE
           in == inputs[e].audio
           old == delayBuffers[e]
           st0 == [ vw   |-> [b \in Buffers |-> in],
                    ve   |-> [b \in Buffers |-> Get(old[b], ei)],
                    acc  |-> 0,
                    ent  |-> entanglement[e],
                    pend |-> [b \in Buffers |-> entPending[e][b] \ {w}] ]
           st == BufferLoop(st0, old, NUM_BUFFERS, w, readIndices[e], delayTimes[e],
                            probWeights[e], controls[e].globalFeedback, feedbackLevels[e])
       IN /\ collapseLight' = [collapseLight EXCEPT ![e] = DecayLight(@, sampleRate)]
          /\ delayBuffers' = [delayBuffers EXCEPT ![e] =
                                [b \in Buffers |-> Put(Put(old[b], w, st.vw[b]), ei, st.ve[b])]]
          /\ entanglement' = [entanglement EXCEPT ![e] = st.ent]
          /\ output' = [output EXCEPT ![e] =
                          MixedOutput(in, WetSample(st.acc), controls[e].dryWetMix)]
          /\ writeIndex' = [writeIndex EXCEPT ![e] = (w + 1) % BUFFER_SIZE]
          /\ entPending' = [entPending EXCEPT ![e] = st.pend]
          /\ entLost' = [entLost EXCEPT ![e] =
                           @ \/ \E b \in Buffers : w \in entPending[e][b]]
    /\ pc' = [pc EXCEPT ![e] = "enter"]
    /\ UNCHANGED << readIndices, probWeights, targetWeights, weightVelocity, delayTimes,
                    feedbackLevels, controls, collapseTrigger, rng, controlDivider,
                    peakCenter, params, inputs, sampleRate, rootJ, imports, collapses,
                    updates >>

\* -------------------------------------------------------------- dataFromJson
\* json_object_get(rootJ, "probWeights") is not NULL.
HasWeights(j) == j.kind # "missing"

\* json_array_get(weightsJ, i) is not NULL: weightsJ is an array with more than
\* i elements.
HasElement(j, i) == j.kind = "array" /\ i < Len(j.elems)

\* json_real_value(weightJ): the value of a JSON real, 0.0 for any other value.
JsonRealValue(el) == IF el.real THEN el.val ELSE 0

\* The weight dataFromJson() leaves in entry i, given the entry's old value.
Imported(j, i, old) ==
    IF HasWeights(j) /\ HasElement(j, i) THEN JsonRealValue(j.elems[i + 1]) ELSE old

\* dataFromJson(rootJ), called by the host between process() calls: at most
\* Env.imports times, while at most Env.importUntil calls of process() were made,
\* with an object of Env.json.
DataFromJson(e, Env) ==
    /\ Idle
    /\ imports[e] < Env.imports
    /\ writeIndex[e] <= Env.importUntil
    /\ \E j \in Env.json :
          /\ rootJ' = [rootJ EXCEPT ![e] = j]
          /\ probWeights' = [probWeights EXCEPT ![e] =
                               [i \in Buffers |-> Imported(j, i, probWeights[e][i])]]
          /\ targetWeights' = [targetWeights EXCEPT ![e] =
                                 [i \in Buffers |-> Imported(j, i, targetWeights[e][i])]]
    /\ imports' = [imports EXCEPT ![e] = @ + 1]
    /\ UNCHANGED << delayBuffers, writeIndex, readIndices, weightVelocity, delayTimes,
                    feedbackLevels, entanglement, controls, collapseTrigger,
                    collapseLight, rng, controlDivider, peakCenter, params, inputs,
                    output, sampleRate, pc, collapses, updates, entPending, entLost >>

\* -------------------------------------------------------------- environments
NoCv == [ audio |-> 0, trig |-> 0, cvProb |-> 0, cvSpread |-> 0, cvFeedback |-> 0 ]

\* A knob setting with no CV connected.
Knobs(time, spread, prob, feedback, mix, chaos) ==
    [ p |-> [ time |-> time, spread |-> spread, prob |-> prob, feedback |-> feedback,
              mix |-> mix, chaos |-> chaos ],
      cv |-> NoCv ]

Pct(n) == (n * ONE) \div 100

\* Audio specification: one instance; the audio input is any of -10 V, 0 V, 10 V
\* in each of the first BurstLen calls and is held afterwards; no trigger.
EnvAudio ==
    [ audio |-> {-10 * ONE, 0, 10 * ONE}, burst |-> BurstLen, trig |-> {0}, collapses |-> 0,
      trigFrom |-> 0, calls |-> MaxCallsAudio, total |-> MaxCallsAudio,
      ctl |-> { [p |-> DefaultParams, cv |-> NoCv],
                Knobs(Pct(100), Pct(100), Pct(50), Pct(95), Pct(100), 0),
                Knobs(Pct(25), Pct(50), Pct(25), Pct(30), 0, Pct(100)) } ]

InitAudio == InitWith({1}, {0}, {48000})

NextAudio == ProcessEnter(1, EnvAudio) \/ CollapseCheck(1) \/ Audio(1)

SpecAudio == InitAudio /\ [][NextAudio]_vars

\* Collapse specification: one instance, every seed of the generator; silence at
\* the audio input; from call TrigFrom on the trigger port carries 0 V or 5 V, for
\* at most MaxCollapses collapses; at the control-rate update any probability
\* shape with chaos 0, or the default knobs.
EnvCollapse ==
    [ audio |-> {0}, burst |-> 0, trig |-> {0, 5 * ONE}, collapses |-> MaxCollapses,
      trigFrom |-> TrigFrom, calls |-> MaxCallsCollapse, total |-> MaxCallsCollapse,
      ctl |-> { Knobs(Pct(25), Pct(50), Pct(s), Pct(30), Pct(50), 0) : s \in {0, 25, 50, 75, 100} }
              \cup { [p |-> DefaultParams, cv |-> NoCv] } ]

InitCollapse == InitWith({1}, 0 .. (RandDen - 1), {48000})

NextCollapse == ProcessEnter(1, EnvCollapse) \/ CollapseCheck(1) \/ Audio(1)

SpecCollapse == InitCollapse /\ [][NextCollapse]_vars

\* A JSON real.
Real(v) == [real |-> TRUE, val |-> v]

\* A JSON value that is not a real (a string, an integer, null, ...).
NotReal == [real |-> FALSE, val |-> 0]

\* The objects handed to dataFromJson: no "probWeights" entry; an entry that is
\* not an array; an array of three reals; an array of six values that are not
\* reals; an array of six negative reals; a well-formed weight vector.
JsonObjects ==
    { [kind |-> "missing", elems |-> << >>],
      [kind |-> "other", elems |-> << >>],
      [kind |-> "array", elems |-> << Real(Pct(50)), Real(Pct(30)), Real(Pct(20)) >>],
      [kind |-> "array", elems |-> [i \in 1 .. NUM_BUFFERS |-> NotReal]],
      [kind |-> "array", elems |-> [i \in 1 .. NUM_BUFFERS |-> Real(-ONE)]],
      [kind |-> "array", elems |-> << Real(Pct(50)), Real(Pct(10)), Real(Pct(10)),
                                      Real(Pct(10)), Real(Pct(10)), Real(Pct(10)) >>] }

\* Import specification: one instance; silence, no trigger; dataFromJson at most
\* MaxImports times within the first ImportUntil calls; at the control-rate update
\* the default knobs or a probability shape of 40 % or 100 % with chaos 0.
EnvImport ==
    [ audio |-> {0}, burst |-> 0, trig |-> {0}, collapses |-> 0, trigFrom |-> 0,
      calls |-> MaxCallsImport, total |-> MaxCallsImport,
      imports |-> MaxImports, importUntil |-> ImportUntil, json |-> JsonObjects,
      ctl |-> { Knobs(Pct(25), Pct(50), Pct(s), Pct(30), Pct(50), 0) : s \in {40, 100} }
              \cup { [p |-> DefaultParams, cv |-> NoCv] } ]

InitImport == InitWith({1}, {0, 3}, {48000})

NextImport ==
    \/ ProcessEnter(1, EnvImport)
    \/ CollapseCheck(1)
    \/ Audio(1)
    \/ DataFromJson(1, EnvImport)

SpecImport == InitImport /\ [][NextImport]_vars

\* Two-instance specification: the host calls process() on the instances in any
\* order, MaxCallsTwo calls in all; silence, no trigger; default knobs or a
\* peaked shape with full chaos.
EnvTwo ==
    [ audio |-> {0}, burst |-> 0, trig |-> {0}, collapses |-> 0, trigFrom |-> 0,
      calls |-> MaxCallsTwo, total |-> MaxCallsTwo,
      ctl |-> { [p |-> DefaultParams, cv |-> NoCv],
                Knobs(Pct(25), Pct(50), Pct(100), Pct(30), Pct(50), Pct(100)) } ]

InitTwo == InitWith(Engines, {0}, {48000})

NextTwo == \E e \in Engines : ProcessEnter(e, EnvTwo) \/ CollapseCheck(e) \/ Audio(e)

SpecTwo == InitTwo /\ [][NextTwo]_vars

\* Relaxation specification: one instance; silence, no trigger; from the first
\* control-rate update on the probability shape is 100 % and chaos is 0; the run
\* covers MaxUpdatesRelax control-rate updates.
EnvRelax ==
    [ audio |-> {0}, burst |-> 0, trig |-> {0}, collapses |-> 0, trigFrom |-> 0,
      calls |-> MaxUpdatesRelax * ControlPeriod, total |-> MaxUpdatesRelax * ControlPeriod,
      ctl |-> { Knobs(Pct(25), Pct(50), Pct(100), Pct(30), Pct(50), 0) } ]

InitRelax == InitWith({1}, {0}, {44100, 48000})

NextRelax == ProcessEnter(1, EnvRelax) \/ CollapseCheck(1) \/ Audio(1)

SpecRelax == InitRelax /\ [][NextRelax]_vars

\* ---------------------------------------------------------------- claims
\* C1: at the moment the buffers are read in a process() call, every read cursor
\* is the write cursor minus the whole part of the buffer's delay length, modulo
\* the capacity.
C1_ReadCursorLockstep ==
    \A e \in Engines : pc[e] = "audio" =>
        \A b \in Buffers : readIndices[e][b] = ReadIndex(writeIndex[e], delayTimes[e][b])

\* C2: in no process() call is the slot a buffer reads at its read cursor the slot
\* the call writes the input sample to.
C2_ReadBeforeOverwrite ==
    \A e \in Engines : pc[e] = "audio" =>
        \A b \in Buffers : readIndices[e][b] # writeIndex[e]

\* C6: with the audio input in [-10 V, 10 V] and the knobs in their ranges, the
\* audio output is in [-10 V, 10 V].
C6_OutputBounded ==
    \A e \in Engines : -10 * ONE <= output[e] /\ output[e] <= 10 * ONE

\* A call has ended whose six taps all read more than 10 V, so that the weighted
\* sum exceeded 10 V, and whose output is 10 V.
C6_Witness ==
    /\ pc[1] = "enter"
    /\ writeIndex[1] >= 2
    /\ \A b \in Buffers : Get(delayBuffers[1][b], readIndices[1][b]) > 10 * ONE
    /\ \A b \in Buffers : probWeights[1][b] = ONE \div NUM_BUFFERS
    /\ output[1] = 10 * ONE

\* C10: energy the cross-coupling step added to a slot of another buffer is read
\* by that buffer before the input write overwrites the slot.
C10_EnergyReadBack == \A e \in Engines : ~entLost[e]

\* The target vector has 0.7 in entry k and 0.3 / (N - 1) in every other entry.
IsCollapsedOn(t, k) ==
    /\ t[k] = (7 * ONE) \div 10
    /\ \A j \in Buffers \ {k} : t[j] = ((3 * ONE) \div 10) \div (NUM_BUFFERS - 1)
    /\ SumTo(t, NUM_BUFFERS) = ONE

\* The step of instance e is the trigger check of a call in which the trigger fires.
CollapseStep(e) ==
    /\ pc[e] = "collapse"
    /\ pc'[e] = "audio"
    /\ ~collapseTrigger[e]
    /\ collapseTrigger'[e]

\* C3: whatever the random source returns, a collapse leaves exactly one target
\* entry at 0.7 and the others at 0.3 / (N - 1), summing to 1, and the collapse
\* indicator at 1.
C3_CollapseAssignment ==
    [][\A e \in Engines : CollapseStep(e) =>
          /\ collapseLight'[e] = LightScale
          /\ \E k \in Buffers : IsCollapsedOn(targetWeights'[e], k)]_vars

\* A collapse has just chosen the last buffer (a draw in the top sixth of [0, 1)).
C3_Witness ==
    /\ pc[1] = "audio"
    /\ collapses[1] >= 1
    /\ collapseLight[1] = LightScale
    /\ IsCollapsedOn(targetWeights[1], NUM_BUFFERS - 1)

\* The step of instance e is the entry of a call whose control-rate gate fires.
UpdateStep(e) ==
    /\ pc[e] = "enter"
    /\ pc'[e] = "collapse"
    /\ controlDivider' = 0

\* C9: at the control-rate update that follows a collapse on buffer k, with chaos
\* 0 and any probability shape, the target the relax step uses gives buffer k
\* strictly more weight than every other buffer.
C9_CollapseSurvivesRetarget ==
    [][\A e \in Engines : \A k \in Buffers :
          (UpdateStep(e) /\ IsCollapsedOn(targetWeights[e], k)
                         /\ controls'[e].chaosAmount = 0)
          => \A j \in Buffers \ {k} : targetWeights'[e][k] > targetWeights'[e][j]]_vars

\* The tolerance of "sums to 1": one part in a hundred, which is above what the
\* rounding of the fixed-point weights accumulates over the updates of a run.
WeightEps == ONE \div 100

\* The step of instance e is the entry of a call whose control-rate gate fires,
\* and the sum updateProbabilityWeights() divides by is d.
Divisor(e) ==
    UpdateProbabilityWeights(controls'[e].probabilityShape, controls'[e].chaosAmount,
                             targetWeights[e], probWeights[e], weightVelocity[e],
                             peakCenter, rng[e]).sum

\* C4: after every control-rate update the current weights sum to 1 within
\* WeightEps, and the sum the normalisation divided by was strictly positive.
C4_WeightsNormalized ==
    [][\A e \in Engines : UpdateStep(e) =>
          /\ Divisor(e) > 0
          /\ ~IsNaN(SumTo(probWeights'[e], NUM_BUFFERS))
          /\ Abs(SumTo(probWeights'[e], NUM_BUFFERS) - ONE) <= WeightEps]_vars

\* C5: every current weight is at least 0 in every reachable state.
C5_WeightsNonNegative ==
    \A e \in Engines : \A b \in Buffers : probWeights[e][b] >= 0

\* The persisted object has no usable weight vector: no "probWeights" entry, or
\* one that is not an array, is shorter than N, or holds an element that is not
\* a number.
Malformed(j) ==
    \/ j.kind = "missing"
    \/ j.kind = "other"
    \/ j.kind = "array" /\ Len(j.elems) < NUM_BUFFERS
    \/ j.kind = "array" /\ \E i \in 1 .. Len(j.elems) : ~j.elems[i].real

\* C7: dataFromJson with a missing or malformed weight vector leaves probWeights
\* and targetWeights as they were.
C7_BadImportIsNoOp ==
    [][\A e \in Engines :
          (imports'[e] = imports[e] + 1 /\ Malformed(rootJ'[e]))
          => (probWeights'[e] = probWeights[e] /\ targetWeights'[e] = targetWeights[e])]_vars

\* C8: each instance runs its control-rate update in exactly every 64th of its
\* own process() calls, and a call on one instance does not change the peak
\* centre another instance uses.
C8_InstancesIndependent ==
    [][\A e \in Engines :
          (pc[e] = "enter" /\ pc'[e] = "collapse") =>
              /\ (controlDivider' = 0) <=> ((writeIndex[e] + 1) % ControlPeriod = 0)
              /\ (\E o \in Engines \ {e} : writeIndex[o] > 0) => peakCenter' = peakCenter]_vars

=============================================================================
